---- MODULE Spec2Model ----
(***************************************************************************)
(* A model of the technology tree of src/lib.rs: the registry             *)
(* (TechnologyTree.technologies), the eligibility test, the unlock        *)
(* operation on a caller-owned set, the priority search of                *)
(* get_technology_path and the text codec (serialize / deserialize).      *)
(*                                                                         *)
(* A String is a sequence of one-character strings, a HashSet a set, a    *)
(* HashMap a function on its key set.  A u32 is a pair <<hi, lo>> of      *)
(* 16-bit halves (value hi * 65536 + lo), so that the whole 32-bit range  *)
(* is representable; an i32 is an integer in MinI32 .. MaxI32.            *)
(***************************************************************************)
EXTENDS Integers, Sequences, FiniteSets, Bags, TLC

VARIABLES
    technologies,   \* TechnologyTree.technologies : HashMap<String, Technology>
    unlocked,       \* the caller-owned HashSet<String> passed to the queries
    call,           \* the last call made on the tree: its name, arguments, result
    pc,             \* where get_technology_path stands: idle, loop, reconstruct, done
    heap,           \* get_technology_path: the BinaryHeap<Node>, a bag of nodes
    parent,         \* get_technology_path: HashMap<String, String>
    visited,        \* get_technology_path: HashSet<String>
    visit_order,    \* history: the ids in the order visited.insert received them
    node,           \* get_technology_path: the cursor of the path reconstruction
    path,           \* get_technology_path: the Vec<String> being built
    data            \* the text at hand: what serialize returned, or an input text

search == <<pc, heap, parent, visited, visit_order, node, path>>
codec == <<data>>
vars == <<technologies, unlocked, call, pc, heap, parent, visited, visit_order, node,
          path, data>>

----------------------------------------------------------------------------
(* Bounds of the model *)

MaxCost == 1
MaxPoints == 1
MaxPathCost == 1
MaxLines == 2

----------------------------------------------------------------------------
(* u32 values *)

Half == 2^16

U32(n) == <<n \div Half, n % Half>>

\* a <= b on u32
ULe(a, b) == a[1] < b[1] \/ (a[1] = b[1] /\ a[2] <= b[2])

----------------------------------------------------------------------------
(* Strings, ids and the records the model draws its inputs from *)

Ids == {<<"a">>, <<"b">>}
Names == {<<"n">>}
Descriptions == {<<"d">>}
Costs == {U32(n) : n \in 0..MaxCost}
Points == {U32(n) : n \in 0..MaxPoints}

\* enum Prerequisites { And(HashSet<String>), Or(HashSet<String>) }
And(set) == [kind |-> "And", set |-> set]
Or(set) == [kind |-> "Or", set |-> set]
Prerequisites == {And(s) : s \in SUBSET Ids} \cup {Or(s) : s \in SUBSET Ids}

\* struct Technology
Technology ==
    [id : Ids, name : Names, description : Descriptions,
     prerequisites : Prerequisites, cost : Costs]

\* HashMap::new()
EmptyMap == [k \in {} |-> k]

\* The inputs of the path search: every registry over three ids with
\* prerequisite sets of at most one id, every unlocked set over the three ids,
\* and as target either the id c (registered or not, unlocked or not) or the
\* id t, which is never registered nor unlocked.  The code treats all ids
\* alike, so fixing which id is the target loses no case.  With one point to
\* spend a cost of 0 or 1 is affordable and a higher one is not.
PathIds == {<<"a">>, <<"b">>, <<"c">>}
PathTargets == {<<"c">>, <<"t">>}
\* The unlocked sets: every set over the three ids, and one set with an id,
\* s, that is never registered, so that two seeds can stand beside two
\* registered ids that are not unlocked
PathUnlocked == (SUBSET PathIds) \cup {{<<"a">>, <<"s">>}}
PathCosts == {U32(n) : n \in 0..MaxPathCost}
PathPoints == {U32(1)}
PathPrerequisites ==
    {And({})} \cup {And({i}) : i \in PathIds} \cup
    {Or({})} \cup {Or({i}) : i \in PathIds}
PathBody == [prerequisites : PathPrerequisites, cost : PathCosts]

\* The registry with keys D whose records are given by b
PathRegistry(D, b) ==
    [k \in D |-> [id |-> k, name |-> <<"n">>, description |-> <<"d">>,
                  prerequisites |-> b[k].prerequisites, cost |-> b[k].cost]]

\* The orders in which an iteration can yield the elements of a HashSet or
\* the keys of a HashMap
Orders(S) ==
    {o \in [1..Cardinality(S) -> S] : \A i, j \in 1..Cardinality(S) : o[i] = o[j] => i = j}

\* HashMap::insert / HashMap::remove
MapInsert(m, k, v) == [x \in DOMAIN m \cup {k} |-> IF x = k THEN v ELSE m[x]]
MapRemove(m, k) == [x \in DOMAIN m \ {k} |-> m[x]]

----------------------------------------------------------------------------
(* The operations of TechnologyTree, as functions of the tree *)

\* TechnologyTree::new
new == EmptyMap

\* a mutated insertion: a record already present keeps its prerequisite ids
add_technology_merge(techs, technology) ==
    IF technology.id \in DOMAIN techs
    THEN MapInsert(techs, technology.id,
            [technology EXCEPT !.prerequisites.set =
                @ \cup techs[technology.id].prerequisites.set])
    ELSE MapInsert(techs, technology.id, technology)

\* add_technology: insert under the record's own id
add_technology(techs, technology) == MapInsert(techs, technology.id, technology)

\* a mutated dependency test: only the And sets are searched
DependentsAndOnly(techs, technology_id) ==
    {k \in DOMAIN techs :
        /\ techs[k].prerequisites.kind = "And"
        /\ technology_id \in techs[k].prerequisites.set}

\* The records whose prerequisite set, And or Or, contains technology_id.
\* The loop of remove_technology returns at the first one it meets; the
\* iteration order of the HashMap decides which one that is.
Dependents(techs, technology_id) ==
    {k \in DOMAIN techs :
        CASE techs[k].prerequisites.kind = "And" ->
                technology_id \in techs[k].prerequisites.set
          [] techs[k].prerequisites.kind = "Or" ->
                technology_id \in techs[k].prerequisites.set}

\* remove_technology: the set of outcomes [ret, technologies] the call can have
remove_technology(techs, technology_id) ==
    IF Dependents(techs, technology_id) # {}
    THEN {[ret |-> [tag |-> "Err", prerequisite |-> technology_id,
                    dependent |-> techs[k].id],
           technologies |-> techs] : k \in Dependents(techs, technology_id)}
    ELSE {[ret |-> [tag |-> "Ok"],
           technologies |-> MapRemove(techs, technology_id)]}

\* a mutated eligibility test: the cost must be strictly below the points
is_unlockable_strict(techs, tech_id, unl, science_points) ==
    IF tech_id \in DOMAIN techs
    THEN CASE techs[tech_id].prerequisites.kind = "And" ->
                 /\ techs[tech_id].prerequisites.set \subseteq unl
                 /\ ULe(techs[tech_id].cost, science_points)
                 /\ techs[tech_id].cost # science_points
           [] techs[tech_id].prerequisites.kind = "Or" ->
                 /\ Cardinality(techs[tech_id].prerequisites.set \cap unl) > 0
                 /\ ULe(techs[tech_id].cost, science_points)
                 /\ techs[tech_id].cost # science_points
    ELSE FALSE

\* a mutated eligibility test: an Or set is tested like an And set
is_unlockable_or_subset(techs, tech_id, unl, science_points) ==
    IF tech_id \in DOMAIN techs
    THEN /\ techs[tech_id].prerequisites.set \subseteq unl
         /\ ULe(techs[tech_id].cost, science_points)
    ELSE FALSE

\* a mutated eligibility test: only the cost is tested
is_unlockable_cost_only(techs, tech_id, unl, science_points) ==
    IF tech_id \in DOMAIN techs
    THEN ULe(techs[tech_id].cost, science_points)
    ELSE FALSE

\* a mutated eligibility test: an Or set needs exactly one unlocked id
is_unlockable_exactly_one(techs, tech_id, unl, science_points) ==
    IF tech_id \in DOMAIN techs
    THEN CASE techs[tech_id].prerequisites.kind = "And" ->
                 /\ techs[tech_id].prerequisites.set \subseteq unl
                 /\ ULe(techs[tech_id].cost, science_points)
           [] techs[tech_id].prerequisites.kind = "Or" ->
                 /\ Cardinality(techs[tech_id].prerequisites.set \cap unl) = 1
                 /\ ULe(techs[tech_id].cost, science_points)
    ELSE FALSE

\* is_unlockable
is_unlockable(techs, tech_id, unl, science_points) ==
    IF tech_id \in DOMAIN techs
    THEN CASE techs[tech_id].prerequisites.kind = "And" ->
                 /\ techs[tech_id].prerequisites.set \subseteq unl
                 /\ ULe(techs[tech_id].cost, science_points)
           [] techs[tech_id].prerequisites.kind = "Or" ->
                 /\ Cardinality(techs[tech_id].prerequisites.set \cap unl) > 0
                 /\ ULe(techs[tech_id].cost, science_points)
    ELSE FALSE

\* a mutated unlock: the id is inserted whatever the eligibility test says
unlock_technology_always_inserts(techs, tech_id, unl, science_points) ==
    [ret |-> is_unlockable(techs, tech_id, unl, science_points),
     unlocked |-> unl \cup {tech_id}]

\* a mutated unlock: an id that is already unlocked is refused
unlock_technology_once(techs, tech_id, unl, science_points) ==
    IF tech_id \notin unl /\ is_unlockable(techs, tech_id, unl, science_points)
    THEN [ret |-> TRUE, unlocked |-> unl \cup {tech_id}]
    ELSE [ret |-> FALSE, unlocked |-> unl]

\* unlock_technology: the result and the caller's set after the call
unlock_technology(techs, tech_id, unl, science_points) ==
    IF is_unlockable(techs, tech_id, unl, science_points)
    THEN [ret |-> TRUE, unlocked |-> unl \cup {tech_id}]
    ELSE [ret |-> FALSE, unlocked |-> unl]

\* a mutated listing: the ids that are already unlocked are left out
get_unlockable_technologies_locked_only(techs, unl, science_points) ==
    {SelectSeq(keys, LAMBDA tech_id :
                    /\ tech_id \notin unl
                    /\ is_unlockable(techs, tech_id, unl, science_points)) :
        keys \in Orders(DOMAIN techs)}

\* get_unlockable_technologies: the vectors the call can return, one for each
\* order in which HashMap::keys can yield the ids
get_unlockable_technologies(techs, unl, science_points) ==
    {SelectSeq(keys, LAMBDA tech_id :
                    is_unlockable(techs, tech_id, unl, science_points)) :
        keys \in Orders(DOMAIN techs)}

----------------------------------------------------------------------------
(* The registry and the unlock engine as a state machine *)

Init ==
    /\ technologies = new
    /\ unlocked \in SUBSET Ids
    /\ call = [op |-> "new"]
    /\ pc = "idle"
    /\ heap = EmptyBag
    /\ parent = EmptyMap
    /\ visited = {}
    /\ visit_order = <<>>
    /\ node = <<>>
    /\ path = <<>>
    /\ data = <<>>

AddTechnology ==
    \E technology \in Technology :
        /\ technologies' = add_technology(technologies, technology)
        /\ call' = [op |-> "add_technology", technology |-> technology]
        /\ UNCHANGED <<unlocked, search, codec>>

RemoveTechnology ==
    \E technology_id \in Ids :
        \E r \in remove_technology(technologies, technology_id) :
            /\ technologies' = r.technologies
            /\ call' = [op |-> "remove_technology",
                        technology_id |-> technology_id, ret |-> r.ret]
            /\ UNCHANGED <<unlocked, search, codec>>

IsUnlockable ==
    \E tech_id \in Ids, science_points \in Points :
        /\ call' = [op |-> "is_unlockable", tech_id |-> tech_id,
                    science_points |-> science_points,
                    ret |-> is_unlockable(technologies, tech_id, unlocked,
                                          science_points)]
        /\ UNCHANGED <<technologies, unlocked, search, codec>>

UnlockTechnology ==
    \E tech_id \in Ids, science_points \in Points :
        LET r == unlock_technology(technologies, tech_id, unlocked, science_points)
        IN  /\ unlocked' = r.unlocked
            /\ call' = [op |-> "unlock_technology", tech_id |-> tech_id,
                        science_points |-> science_points, ret |-> r.ret]
            /\ UNCHANGED <<technologies, search, codec>>

GetUnlockableTechnologies ==
    \E science_points \in Points :
        \E ret \in get_unlockable_technologies(technologies, unlocked, science_points) :
            /\ call' = [op |-> "get_unlockable_technologies",
                        science_points |-> science_points, ret |-> ret]
            /\ UNCHANGED <<technologies, unlocked, search, codec>>

Next ==
    \/ AddTechnology
    \/ RemoveTechnology
    \/ IsUnlockable
    \/ UnlockTechnology
    \/ GetUnlockableTechnologies

Spec == Init /\ [][Next]_vars

----------------------------------------------------------------------------
(* The unlock engine on a fixed registry, from an empty unlocked set *)

InitUnlock ==
    /\ \E D \in SUBSET Ids : \E techs \in [D -> Technology] :
            /\ \A k \in D : techs[k].id = k
            /\ technologies = techs
    /\ unlocked = {}
    /\ call = [op |-> "new"]
    /\ pc = "idle"
    /\ heap = EmptyBag
    /\ parent = EmptyMap
    /\ visited = {}
    /\ visit_order = <<>>
    /\ node = <<>>
    /\ path = <<>>
    /\ data = <<>>

NextUnlock ==
    \/ IsUnlockable
    \/ UnlockTechnology

SpecUnlock == InitUnlock /\ [][NextUnlock]_vars

----------------------------------------------------------------------------
(* i32 arithmetic of the search priority *)

MaxI32 == 2147483647
MinI32 == -MaxI32 - 1

\* `x as i32` of a u32: the same 32 bits read as two's complement
AsI32(u) == IF u[1] >= Half \div 2 THEN (u[1] - Half) * Half + u[2]
            ELSE u[1] * Half + u[2]

\* The operations that leave the i32 range.  A build with overflow checks
\* panics there; a build without them wraps.
NegI32Overflows(x) == x = MinI32
AddI32Overflows(x, y) ==
    \/ y > 0 /\ x > MaxI32 - y
    \/ y < 0 /\ x < MinI32 - y

\* -x and x + y, wrapped to 32 bits
NegI32(x) == IF NegI32Overflows(x) THEN MinI32 ELSE -x
AddI32(x, y) ==
    IF y > 0 /\ x > MaxI32 - y THEN (x - MaxI32 - 1) + (y - MaxI32 - 1)
    ELSE IF y < 0 /\ x < MinI32 - y THEN (x + MaxI32 + 1) + (y + MaxI32 + 1)
    ELSE x + y

----------------------------------------------------------------------------
(* get_technology_path *)

\* struct Node
Node(tech_id, cost) == [tech_id |-> tech_id, cost |-> cost]

\* i32::cmp
CmpI32(x, y) == IF x < y THEN "Less" ELSE IF x = y THEN "Equal" ELSE "Greater"

\* impl Ord for Node: cmp(self, other) = other.cost.cmp(&self.cost)
NodeCmp(self, other) == CmpI32(other.cost, self.cost)

\* The nodes BinaryHeap::pop can return: a greatest one under NodeCmp.  Which
\* of several equal ones it is depends on the order of the pushes, which
\* follows the iteration order of the HashSet and the HashMap.
Greatest(h) ==
    {n \in BagToSet(h) : \A m \in BagToSet(h) : NodeCmp(m, n) # "Greater"}

\* The priority stored for a neighbour pushed while current_cost is expanded
PushCost(current_cost, neighbor_cost) ==
    NegI32(AddI32(current_cost, AsI32(neighbor_cost)))

\* a mutated expansion: eligibility is tested against the ids visited so far
NeighborsProgressive(techs, unl, science_points, vis) ==
    {neighbor_id \in DOMAIN techs :
        /\ neighbor_id \notin unl
        /\ is_unlockable(techs, neighbor_id, unl \cup vis, science_points)
        /\ neighbor_id \notin vis}

\* a mutated expansion: a neighbour that was visited is pushed again
NeighborsRevisit(techs, unl, science_points, vis) ==
    {neighbor_id \in DOMAIN techs :
        /\ neighbor_id \notin unl
        /\ is_unlockable(techs, neighbor_id, unl, science_points)}

\* a mutated expansion: only the cost of a neighbour is tested
NeighborsAffordable(techs, unl, science_points, vis) ==
    {neighbor_id \in DOMAIN techs :
        /\ neighbor_id \notin unl
        /\ ULe(techs[neighbor_id].cost, science_points)
        /\ neighbor_id \notin vis}

\* The registry entries the for loop of an expansion pushes
Neighbors(techs, unl, science_points, vis) ==
    {neighbor_id \in DOMAIN techs :
        /\ neighbor_id \notin unl
        /\ is_unlockable(techs, neighbor_id, unl, science_points)
        /\ neighbor_id \notin vis}

\* a mutated predecessor map: the first predecessor recorded for an id is kept
ParentKeepFirst(par, pushed, current_tech) ==
    [k \in DOMAIN par \cup pushed |-> IF k \in DOMAIN par THEN par[k] ELSE current_tech]

\* parent.insert(neighbor_id, current_tech) for every neighbour pushed: an
\* earlier predecessor of the neighbour is overwritten
ParentInsert(par, pushed, current_tech) ==
    [k \in DOMAIN par \cup pushed |-> IF k \in pushed THEN current_tech ELSE par[k]]

\* The call record once get_technology_path has returned ret
ReturnFrom(c, ret) ==
    [op |-> c.op, target |-> c.target, science_points |-> c.science_points,
     ret |-> ret]

\* a mutated reversal: the path is left in the order it was collected
NotReversed(seq) == seq

\* Vec::reverse
Reverse(seq) == [i \in 1..Len(seq) |-> seq[Len(seq) + 1 - i]]

\* let mut heap, parent, visited; for tech in unlocked { heap.push(..) }
PathStart ==
    \E target \in PathTargets, science_points \in PathPoints :
        /\ pc = "idle"
        /\ call' = [op |-> "get_technology_path", target |-> target,
                    science_points |-> science_points]
        /\ heap' = SetToBag({Node(tech, 0) : tech \in unlocked})
        /\ parent' = EmptyMap
        /\ visited' = {}
        /\ visit_order' = <<>>
        /\ pc' = "loop"
        /\ UNCHANGED <<technologies, unlocked, node, path, codec>>

\* while let Some(current) = heap.pop(): the heap is empty, return None
PathNone ==
    /\ pc = "loop"
    /\ heap = EmptyBag
    /\ pc' = "done"
    /\ call' = ReturnFrom(call, [tag |-> "None"])
    /\ UNCHANGED <<technologies, unlocked, heap, parent, visited, visit_order, node, path,
                   codec>>

\* One iteration that pops a visited id: continue
PathSkipVisited ==
    \E current \in Greatest(heap) :
        /\ pc = "loop"
        /\ current.tech_id \in visited
        /\ heap' = heap (-) SetToBag({current})
        /\ UNCHANGED <<technologies, unlocked, call, pc, parent, visited, visit_order, node,
                       path, codec>>

\* One iteration that pops the target: mark it visited, start the path
PathReachTarget ==
    \E current \in Greatest(heap) :
        /\ pc = "loop"
        /\ current.tech_id \notin visited
        /\ current.tech_id = call.target
        /\ heap' = heap (-) SetToBag({current})
        /\ visited' = visited \cup {current.tech_id}
        /\ visit_order' = Append(visit_order, current.tech_id)
        /\ path' = <<>>
        /\ node' = current.tech_id
        /\ pc' = "reconstruct"
        /\ UNCHANGED <<technologies, unlocked, call, parent, codec>>

\* One iteration that pops another unvisited id: mark it visited and push the
\* eligible neighbours, each with this id as its parent
PathExpand ==
    \E current \in Greatest(heap) :
        LET current_tech == current.tech_id
            current_cost == NegI32(current.cost)
            pushed == Neighbors(technologies, unlocked, call.science_points,
                                visited \cup {current_tech})
        IN  /\ pc = "loop"
            /\ current_tech \notin visited
            /\ current_tech # call.target
            /\ visited' = visited \cup {current_tech}
            /\ visit_order' = Append(visit_order, current_tech)
            /\ parent' = ParentInsert(parent, pushed, current_tech)
            /\ heap' = (heap (-) SetToBag({current}))
                        (+) SetToBag({Node(neighbor_id,
                                PushCost(current_cost, technologies[neighbor_id].cost)) :
                                    neighbor_id \in pushed})
            /\ UNCHANGED <<technologies, unlocked, call, pc, node, path, codec>>

\* while let Some(p) = parent.get(node) { path.push(p.clone()); node = p; }
PathFollowParent ==
    /\ pc = "reconstruct"
    /\ node \in DOMAIN parent
    /\ path' = Append(path, parent[node])
    /\ node' = parent[node]
    /\ UNCHANGED <<technologies, unlocked, call, pc, heap, parent, visited, visit_order,
                   codec>>

\* path.reverse(); return Some(path)
PathReturn ==
    /\ pc = "reconstruct"
    /\ node \notin DOMAIN parent
    /\ path' = Reverse(path)
    /\ call' = ReturnFrom(call, [tag |-> "Some", path |-> Reverse(path)])
    /\ pc' = "done"
    /\ UNCHANGED <<technologies, unlocked, heap, parent, visited, visit_order, node, codec>>

InitPath ==
    /\ \E D \in SUBSET PathIds : \E b \in [D -> PathBody] :
            technologies = PathRegistry(D, b)
    /\ unlocked \in PathUnlocked
    /\ call = [op |-> "new"]
    /\ pc = "idle"
    /\ heap = EmptyBag
    /\ parent = EmptyMap
    /\ visited = {}
    /\ visit_order = <<>>
    /\ node = <<>>
    /\ path = <<>>
    /\ data = <<>>

NextPath ==
    \/ PathStart
    \/ PathNone
    \/ PathSkipVisited
    \/ PathReachTarget
    \/ PathExpand
    \/ PathFollowParent
    \/ PathReturn

SpecPath == InitPath /\ [][NextPath]_vars

\* The inputs of the runs that are followed to their end: registries over
\* the three ids whose technologies have no prerequisite or the one
\* prerequisite a, with the same costs, unlocked sets, targets and points
TermPrerequisites == {And({}), And({<<"a">>}), Or({<<"a">>})}
TermBody == [prerequisites : TermPrerequisites, cost : PathCosts]

InitPathFair ==
    /\ \E D \in SUBSET PathIds : \E b \in [D -> TermBody] :
            technologies = PathRegistry(D, b)
    /\ unlocked \in PathUnlocked
    /\ call = [op |-> "new"]
    /\ pc = "idle"
    /\ heap = EmptyBag
    /\ parent = EmptyMap
    /\ visited = {}
    /\ visit_order = <<>>
    /\ node = <<>>
    /\ path = <<>>
    /\ data = <<>>

\* The call runs to its end: the code is sequential, so a step of its loops
\* is taken whenever one is possible
SpecPathFair == InitPathFair /\ [][NextPath]_vars /\ WF_vars(NextPath)

----------------------------------------------------------------------------
(* get_technology_path on costs of the whole u32 range *)

\* u32::MAX
U32Max == <<Half - 1, Half - 1>>

\* Declared costs: 1, 2^31 - 1, 2^31 and 2^32 - 1, all affordable with
\* u32::MAX points; the technologies have no prerequisite
WideCosts == {U32(1), <<Half \div 2 - 1, Half - 1>>, <<Half \div 2, 0>>, U32Max}
WidePoints == {U32Max}
WideBody == [prerequisites : {And({})}, cost : WideCosts]

\* The neighbours of an expansion whose priority, line 174, leaves the i32
\* range in the addition or in the negation
Overflowing(techs, pushed, current_cost) ==
    {neighbor_id \in pushed :
        \/ AddI32Overflows(current_cost, AsI32(techs[neighbor_id].cost))
        \/ NegI32Overflows(AddI32(current_cost, AsI32(techs[neighbor_id].cost)))}

\* get_technology_path called with u32::MAX points
PathStartWide ==
    \E target \in PathTargets, science_points \in WidePoints :
        /\ pc = "idle"
        /\ call' = [op |-> "get_technology_path", target |-> target,
                    science_points |-> science_points]
        /\ heap' = SetToBag({Node(tech, 0) : tech \in unlocked})
        /\ parent' = EmptyMap
        /\ visited' = {}
        /\ visit_order' = <<>>
        /\ pc' = "loop"
        /\ UNCHANGED <<technologies, unlocked, node, path, codec>>

\* One iteration in a build with overflow checks: the priority of a
\* neighbour overflows and the call panics.  (Without overflow checks the
\* arithmetic wraps, which is what PathExpand computes.)
PathOverflow ==
    \E current \in Greatest(heap) :
        LET current_tech == current.tech_id
            current_cost == NegI32(current.cost)
            pushed == Neighbors(technologies, unlocked, call.science_points,
                                visited \cup {current_tech})
        IN  /\ pc = "loop"
            /\ current_tech \notin visited
            /\ current_tech # call.target
            /\ Overflowing(technologies, pushed, current_cost) # {}
            /\ pc' = "done"
            /\ call' = ReturnFrom(call, [tag |-> "Panic"])
            /\ UNCHANGED <<technologies, unlocked, heap, parent, visited,
                           visit_order, node, path, codec>>

InitPathWide ==
    /\ \E D \in SUBSET PathIds : \E b \in [D -> WideBody] :
            technologies = PathRegistry(D, b)
    /\ unlocked \in PathUnlocked
    /\ call = [op |-> "new"]
    /\ pc = "idle"
    /\ heap = EmptyBag
    /\ parent = EmptyMap
    /\ visited = {}
    /\ visit_order = <<>>
    /\ node = <<>>
    /\ path = <<>>
    /\ data = <<>>

NextPathWide ==
    \/ PathStartWide
    \/ PathNone
    \/ PathSkipVisited
    \/ PathReachTarget
    \/ PathExpand
    \/ PathOverflow
    \/ PathFollowParent
    \/ PathReturn

SpecPathWide == InitPathWide /\ [][NextPathWide]_vars

----------------------------------------------------------------------------
(* The text codec: formatting and parsing *)

Digits == <<"0", "1", "2", "3", "4", "5", "6", "7", "8", "9">>
IsDigit(c) == \E i \in 1..10 : Digits[i] = c
DigitValue(c) == (CHOOSE i \in 1..10 : Digits[i] = c) - 1

\* u / 10 and u % 10 on a u32
DivMod10(u) ==
    LET t == (u[1] % 10) * Half + u[2]
    IN  [quot |-> <<u[1] \div 10, t \div 10>>, rem |-> t % 10]

\* format!("{}", cost): the decimal digits of a u32
RECURSIVE FormatU32(_)
FormatU32(u) ==
    IF DivMod10(u).quot = <<0, 0>>
    THEN <<Digits[DivMod10(u).rem + 1]>>
    ELSE Append(FormatU32(DivMod10(u).quot), Digits[DivMod10(u).rem + 1])

\* The digit loop of str::parse::<u32>: a character that is no digit and a
\* value above u32::MAX are errors
RECURSIVE ParseDigits(_, _, _)
ParseDigits(s, i, acc) ==
    IF i > Len(s) THEN [ok |-> TRUE, value |-> acc]
    ELSE IF ~IsDigit(s[i]) THEN [ok |-> FALSE]
    ELSE LET t == acc[2] * 10 + DigitValue(s[i])
             hi == acc[1] * 10 + t \div Half
         IN  IF hi >= Half THEN [ok |-> FALSE]
             ELSE ParseDigits(s, i + 1, <<hi, t % Half>>)

\* str::parse::<u32>: an optional '+', then at least one digit
ParseU32(s) ==
    LET digits == IF Len(s) > 0 /\ s[1] = "+" THEN Tail(s) ELSE s
    IN  IF Len(digits) = 0 THEN [ok |-> FALSE] ELSE ParseDigits(digits, 1, <<0, 0>>)

\* cost.parse::<u32>().unwrap_or(0)
ParseCost(s) == IF ParseU32(s).ok THEN ParseU32(s).value ELSE <<0, 0>>

\* [String]::join(sep)
RECURSIVE Join(_, _)
Join(strs, sep) ==
    IF Len(strs) = 0 THEN <<>>
    ELSE IF Len(strs) = 1 THEN strs[1]
    ELSE strs[1] \o sep \o Join(Tail(strs), sep)

\* str::split(sep) for a one-character separator: always at least one part
RECURSIVE SplitFrom(_, _, _, _)
SplitFrom(s, sep, i, part) ==
    IF i > Len(s) THEN <<part>>
    ELSE IF s[i] = sep THEN <<part>> \o SplitFrom(s, sep, i + 1, <<>>)
    ELSE SplitFrom(s, sep, i + 1, Append(part, s[i]))
Split(s, sep) == SplitFrom(s, sep, 1, <<>>)

\* str::lines: split at '\n', no empty last line after a final '\n', and a
\* '\r' before the '\n' belongs to the line ending
StripCr(line) ==
    IF Len(line) > 0 /\ line[Len(line)] = "\r"
    THEN SubSeq(line, 1, Len(line) - 1) ELSE line
Lines(s) ==
    LET parts == Split(s, "\n")
        n == Len(parts)
    IN  [i \in 1..(IF parts[n] = <<>> THEN n - 1 ELSE n) |->
            IF i < n THEN StripCr(parts[i]) ELSE parts[i]]

AndToken == <<"A", "n", "d">>
OrToken == <<"O", "r">>

\* "And:{}" / "Or:{}" with the ids joined by ',' in the order of the iteration
FormatPrerequisites(prereqs, order) ==
    CASE prereqs.kind = "And" -> AndToken \o <<":">> \o Join(order, <<",">>)
      [] prereqs.kind = "Or" -> OrToken \o <<":">> \o Join(order, <<",">>)

\* format!("{};{};{};{};{}", tech_id, tech.name, tech.description, prereqs, tech.cost)
FormatLine(tech_id, tech, order) ==
    Join(<<tech_id, tech.name, tech.description,
           FormatPrerequisites(tech.prerequisites, order), FormatU32(tech.cost)>>,
         <<";">>)

\* serialize: the texts the call can return, one for each iteration order of
\* the map and of every prerequisite set
serialize(techs) ==
    {Join([i \in 1..Len(keys) |-> FormatLine(keys[i], techs[keys[i]], sets[keys[i]])],
          <<"\n">>) :
        keys \in Orders(DOMAIN techs),
        sets \in {f \in [DOMAIN techs ->
                            UNION {Orders(techs[k].prerequisites.set) : k \in DOMAIN techs}] :
                    \A k \in DOMAIN techs : f[k] \in Orders(techs[k].prerequisites.set)}}

\* a mutated prerequisite list: the empty segments are kept
PrereqSetUnfiltered(list) == {Split(list, ",")[i] : i \in 1..Len(Split(list, ","))}

\* prereq_parts[1].split(',').filter(|s| !s.is_empty()).map(String::from).collect()
PrereqSet(list) ==
    {seg \in {Split(list, ",")[i] : i \in 1..Len(Split(list, ","))} : seg # <<>>}

\* One line of deserialize, on the map built so far.  The prerequisite field
\* is indexed at [1] before its kind is looked at: the index is out of
\* bounds, and the call panics, when the field holds no ':'.
DeserializeLine(techs, line) ==
    LET parts == Split(line, ";")
        prereq_parts == Split(parts[4], ":")
    IN  IF Len(parts) # 5 THEN [tag |-> "Ok", technologies |-> techs]
        ELSE IF Len(prereq_parts) < 2 THEN [tag |-> "Panic"]
        ELSE IF prereq_parts[1] \notin {AndToken, OrToken}
             THEN [tag |-> "Ok", technologies |-> techs]
        ELSE [tag |-> "Ok",
              technologies |->
                MapInsert(techs, parts[1],
                    [id |-> parts[1], name |-> parts[2], description |-> parts[3],
                     prerequisites |->
                        IF prereq_parts[1] = AndToken
                        THEN And(PrereqSet(prereq_parts[2]))
                        ELSE Or(PrereqSet(prereq_parts[2])),
                     cost |-> ParseCost(parts[5])])]

\* for line in data.lines() { .. }
RECURSIVE DeserializeFrom(_, _, _)
DeserializeFrom(lines, i, techs) ==
    IF i > Len(lines) THEN [tag |-> "Ok", technologies |-> techs]
    ELSE IF DeserializeLine(techs, lines[i]).tag = "Panic" THEN [tag |-> "Panic"]
    ELSE DeserializeFrom(lines, i + 1, DeserializeLine(techs, lines[i]).technologies)

\* deserialize: the tree built, or a panic
deserialize(text) == DeserializeFrom(Lines(text), 1, EmptyMap)

----------------------------------------------------------------------------
(* The codec as a state machine: a tree to serialize, or a text to load *)

CodecKeys == {<<>>, <<"x">>}
CodecNames == {<<>>, <<"n">>}
CodecDescriptions == {<<"d">>, <<";">>}
CodecPrereqIds == {<<>>, <<"x">>, <<"y">>}
CodecCosts == {<<0, 0>>, <<0, 10>>, <<Half - 1, Half - 1>>}
CodecBody ==
    [name : CodecNames, description : CodecDescriptions, kind : {"And", "Or"},
     set : {S \in SUBSET CodecPrereqIds : Cardinality(S) <= 2}, cost : CodecCosts]
\* The records of the trees of two technologies
CodecPairBody ==
    [name : {<<"n">>}, description : {<<"d">>}, kind : {"And", "Or"},
     set : {{}, {<<>>}, {<<"x">>, <<"y">>}}, cost : {<<0, 0>>, <<0, 10>>}]
CodecTree(D, b) ==
    [k \in D |-> [id |-> k, name |-> b[k].name, description |-> b[k].description,
                  prerequisites |-> [kind |-> b[k].kind, set |-> b[k].set],
                  cost |-> b[k].cost]]
\* Input lines: well formed ones, ones with four, six and one field, an
\* unknown kind, a prerequisite field without ':', empty segments, a second
\* ':', and costs that do not parse
CodecLines ==
    {Join(<<<<"x">>, <<"n">>, <<"d">>, <<"A", "n", "d", ":">>, <<"5">>>>, <<";">>),
     Join(<<<<"y">>, <<"m">>, <<"e">>, <<"O", "r", ":", "x", ",", "y">>, <<"1", "2">>>>, <<";">>),
     Join(<<<<"x">>, <<"n">>, <<"d">>, <<"A", "n", "d", ":">>>>, <<";">>),
     Join(<<<<"x">>, <<"n">>, <<"d">>, <<"A", "n", "d", ":">>, <<"5">>, <<"z">>>>, <<";">>),
     Join(<<<<"x">>, <<"n">>, <<"d">>, <<"X", "o", "r", ":", "y">>, <<"5">>>>, <<";">>),
     Join(<<<<"x">>, <<"n">>, <<"d">>, <<"A", "n", "d">>, <<"5">>>>, <<";">>),
     <<>>,
     Join(<<<<"y">>, <<"n">>, <<"d">>, <<"A", "n", "d", ":", ",", "x", ",", ",", "y", ",">>, <<"z">>>>, <<";">>),
     Join(<<<<"x">>, <<"n">>, <<"d">>, <<"O", "r", ":", "x", ":", "y">>, <<"+", "7">>>>, <<";">>),
     Join(<<<<"y">>, <<"n">>, <<"d">>, <<"A", "n", "d", ":", "x">>,
            <<"4", "2", "9", "4", "9", "6", "7", "2", "9", "5">>>>, <<";">>),
     Join(<<<<"y">>, <<"n">>, <<"d">>, <<"A", "n", "d", ":", "x">>,
            <<"4", "2", "9", "4", "9", "6", "7", "2", "9", "6">>>>, <<";">>),
     Join(<<<<"x">>, <<"n">>, <<"d">>, <<>>, <<"5">>>>, <<";">>)}

\* An input text: the lines ls with '\n' between them
CodecText(ls) == Join(ls, <<"\n">>)

InitCodec ==
    /\ \/ \* a tree to serialize: the empty one or one of one technology,
          /\ \E D \in {S \in SUBSET CodecKeys : Cardinality(S) <= 1} :
                \E b \in [D -> CodecBody] : technologies = CodecTree(D, b)
          /\ data = <<>>
       \/ \* or one of two technologies with records of CodecPairBody,
          /\ \E b \in [CodecKeys -> CodecPairBody] :
                technologies = CodecTree(CodecKeys, b)
          /\ data = <<>>
       \/ \* or a text to load: at most MaxLines lines, with or without a
          \* final '\n'
          /\ technologies = new
          /\ \E n \in 0..MaxLines : \E ls \in [1..n -> CodecLines] :
                data \in {CodecText(ls), CodecText(ls) \o <<"\n">>}
    /\ unlocked = {}
    /\ call = [op |-> "new"]
    /\ pc = "idle"
    /\ heap = EmptyBag
    /\ parent = EmptyMap
    /\ visited = {}
    /\ visit_order = <<>>
    /\ node = <<>>
    /\ path = <<>>

Serialize ==
    \E text \in serialize(technologies) :
        /\ data' = text
        /\ call' = [op |-> "serialize", ret |-> text]
        /\ UNCHANGED <<technologies, unlocked, search>>

Deserialize ==
    /\ call' = [op |-> "deserialize", data |-> data, ret |-> deserialize(data)]
    /\ UNCHANGED <<technologies, unlocked, search, data>>

NextCodec ==
    \/ Serialize
    \/ Deserialize

SpecCodec == InitCodec /\ [][NextCodec]_vars

----------------------------------------------------------------------------
(* Claims about the eligibility test *)

\* The technology the last call named, when it is registered
CalledTech == technologies[call.tech_id]

\* C1: for a registered technology with And prerequisites P, is_unlockable
\* is true if and only if P is a subset of unlocked and cost <= points (so
\* with P empty, exactly when cost <= points).
C1_AndEligibility ==
    (/\ call.op = "is_unlockable"
     /\ call.tech_id \in DOMAIN technologies
     /\ CalledTech.prerequisites.kind = "And")
    => (call.ret <=>
            /\ \A p \in CalledTech.prerequisites.set : p \in unlocked
            /\ ULe(CalledTech.cost, call.science_points))

\* An And technology without prerequisites, asked with points equal to its
\* cost and nothing unlocked, is unlockable.
C1_Witness ==
    /\ call.op = "is_unlockable"
    /\ call.tech_id \in DOMAIN technologies
    /\ CalledTech.prerequisites = And({})
    /\ CalledTech.cost = call.science_points
    /\ unlocked = {}
    /\ call.ret = TRUE

\* C2: for a registered technology with Or prerequisites P, is_unlockable is
\* true if and only if P and unlocked share an id and cost <= points; with P
\* empty it is false whatever the cost, the points and the unlocked set.
C2_OrEligibility ==
    (/\ call.op = "is_unlockable"
     /\ call.tech_id \in DOMAIN technologies
     /\ CalledTech.prerequisites.kind = "Or")
    => /\ call.ret <=>
            /\ \E p \in CalledTech.prerequisites.set : p \in unlocked
            /\ ULe(CalledTech.cost, call.science_points)
       /\ CalledTech.prerequisites.set = {} => call.ret = FALSE

\* An Or technology without prerequisites and of cost 0 is refused although
\* ids are unlocked.
C2_Witness ==
    /\ call.op = "is_unlockable"
    /\ call.tech_id \in DOMAIN technologies
    /\ CalledTech.prerequisites = Or({})
    /\ CalledTech.cost = U32(0)
    /\ unlocked # {}
    /\ call.ret = FALSE

----------------------------------------------------------------------------
(* Claims about the registry *)

\* Some record other than id's own lists id among its prerequisites
OtherDependent(techs, id) ==
    \E k \in DOMAIN techs : techs[k].id # id /\ id \in techs[k].prerequisites.set

\* C3: remove_technology(id) returns an error if and only if some OTHER
\* technology lists id in its prerequisite set; in every other case (a
\* technology that lists only itself, an unregistered id) it returns Ok and
\* id is not a key of the registry afterwards.
C3_RemoveErrIffOtherDependent ==
    [][call'.op = "remove_technology" =>
        /\ call'.ret.tag = "Err" <=> OtherDependent(technologies, call'.technology_id)
        /\ call'.ret.tag = "Ok" => call'.technology_id \notin DOMAIN technologies'
        /\ call'.ret.tag \in {"Ok", "Err"}]_vars

\* C10: add_technology(t) maps t.id to exactly t and leaves every other
\* record unchanged; a successful remove_technology(id) leaves every record
\* other than id present and unchanged; a failed one leaves the whole
\* registry unchanged.
C10_MutationFrame ==
    [][/\ call'.op = "add_technology" =>
            /\ DOMAIN technologies' = DOMAIN technologies \cup {call'.technology.id}
            /\ technologies'[call'.technology.id] = call'.technology
            /\ \A k \in DOMAIN technologies \ {call'.technology.id} :
                    technologies'[k] = technologies[k]
       /\ (call'.op = "remove_technology" /\ call'.ret.tag = "Ok") =>
            /\ DOMAIN technologies' = DOMAIN technologies \ {call'.technology_id}
            /\ \A k \in DOMAIN technologies \ {call'.technology_id} :
                    technologies'[k] = technologies[k]
       /\ (call'.op = "remove_technology" /\ call'.ret.tag = "Err") =>
            technologies' = technologies]_vars

\* A technology was added over an earlier record of the same id while
\* another record was registered.
C10_Witness ==
    /\ call.op = "add_technology"
    /\ DOMAIN technologies = Ids
    /\ technologies[call.technology.id] = call.technology
    /\ call.technology.prerequisites = And({})
    /\ \E k \in Ids : technologies[k].prerequisites.set # {}

----------------------------------------------------------------------------
(* Claims about unlock_technology *)

\* C4: unlock_technology returns true and leaves unlocked equal to the old
\* set plus id exactly when is_unlockable held on the set as it was at call
\* time; otherwise it returns false and unlocked is unchanged.  For an id
\* that is not registered the result is false and unlocked is unchanged,
\* even when the id is a member of unlocked.
C4_UnlockContract ==
    [][call'.op = "unlock_technology" =>
        /\ call'.ret = is_unlockable(technologies, call'.tech_id, unlocked,
                                     call'.science_points)
        /\ call'.ret = TRUE => unlocked' = unlocked \cup {call'.tech_id}
        /\ call'.ret = FALSE => unlocked' = unlocked
        /\ call'.tech_id \notin DOMAIN technologies =>
                call'.ret = FALSE /\ unlocked' = unlocked]_vars

\* An unlock succeeded for a technology with prerequisites, and another id
\* stayed locked.
C4_Witness ==
    /\ call.op = "unlock_technology"
    /\ call.ret = TRUE
    /\ call.tech_id \in unlocked
    /\ call.tech_id \in DOMAIN technologies
    /\ CalledTech.prerequisites.set # {}
    /\ unlocked # Ids

\* C9: if unlock_technology(id, unlocked, points) returned true, the same
\* call on the resulting set returns true again and leaves the set
\* unchanged.
C9_UnlockIdempotent ==
    (call.op = "unlock_technology" /\ call.ret = TRUE)
    => LET again == unlock_technology(technologies, call.tech_id, unlocked,
                                      call.science_points)
       IN  again.ret = TRUE /\ again.unlocked = unlocked

\* An unlock succeeded for an Or technology whose only unlocked prerequisite
\* is another id.
C9_Witness ==
    /\ call.op = "unlock_technology"
    /\ call.ret = TRUE
    /\ call.tech_id \in DOMAIN technologies
    /\ CalledTech.prerequisites.kind = "Or"
    /\ call.tech_id \notin CalledTech.prerequisites.set
    /\ call.tech_id \in unlocked

----------------------------------------------------------------------------
(* Claims about the result of get_technology_path *)

\* get_technology_path has returned
Returned == call.op = "get_technology_path" /\ pc = "done"
ReturnedSome == Returned /\ call.ret.tag = "Some"
ReturnedNone == Returned /\ call.ret.tag = "None"

\* The ids of a sequence
Elems(seq) == {seq[i] : i \in 1..Len(seq)}

\* A returned path that starts at an unlocked id and stops before the target
LeadsToTarget(p) ==
    /\ Len(p) > 0
    /\ p[1] \in unlocked
    /\ call.target \notin Elems(p)

\* C5 as stated: whenever get_technology_path returns Some(path), the path is
\* non-empty, its first element is in unlocked and the target does not occur
\* in it, also when the target is already in unlocked.
C5_PathLeadsToTarget_Original ==
    ReturnedSome => LeadsToTarget(call.ret.path)

\* C5 as amended: a path returned for a target that is not in unlocked is
\* non-empty, starts with a member of unlocked and does not contain the
\* target; the path returned for a target that is in unlocked is empty.
C5_PathLeadsToTarget ==
    ReturnedSome =>
        /\ call.target \notin unlocked => LeadsToTarget(call.ret.path)
        /\ call.target \in unlocked => call.ret.path = <<>>

\* A path of two ids was returned for a target that was not unlocked.
C5_Witness ==
    /\ ReturnedSome
    /\ call.target \notin unlocked
    /\ Len(call.ret.path) = 2

\* C6: get_technology_path returns None exactly when target is not in
\* unlocked and either unlocked is empty or is_unlockable(target, unlocked,
\* points) is false on the original arguments; otherwise it returns Some.
C6_NoneIffNotEligible ==
    Returned =>
        /\ call.ret.tag \in {"None", "Some"}
        /\ call.ret.tag = "None" <=>
            /\ call.target \notin unlocked
            /\ \/ unlocked = {}
               \/ ~is_unlockable(technologies, call.target, unlocked,
                                 call.science_points)

\* None was returned for a registered target whose one And prerequisite is
\* eligible but not unlocked, with an id unlocked.
C6_Witness ==
    /\ ReturnedNone
    /\ unlocked # {}
    /\ call.target \in DOMAIN technologies
    /\ technologies[call.target].prerequisites.kind = "And"
    /\ \E p \in technologies[call.target].prerequisites.set :
            /\ p \notin unlocked
            /\ p # call.target
            /\ is_unlockable(technologies, p, unlocked, call.science_points)
    /\ ULe(technologies[call.target].cost, call.science_points)

----------------------------------------------------------------------------
(* Claims about the codec *)

\* A string without ';', ':', ',' and newline
Clean(str) == \A i \in 1..Len(str) : str[i] \notin {";", ":", ",", "\n"}

\* No id, name, description or prerequisite id of the tree holds a delimiter
CleanTree(techs) ==
    \A k \in DOMAIN techs :
        /\ Clean(k) /\ Clean(techs[k].id)
        /\ Clean(techs[k].name) /\ Clean(techs[k].description)
        /\ \A p \in techs[k].prerequisites.set : Clean(p)

\* The same ids, and for each id the same fields
SameTree(t1, t2) ==
    /\ DOMAIN t1 = DOMAIN t2
    /\ \A k \in DOMAIN t1 :
        /\ t1[k].id = t2[k].id
        /\ t1[k].name = t2[k].name
        /\ t1[k].description = t2[k].description
        /\ t1[k].cost = t2[k].cost
        /\ t1[k].prerequisites.kind = t2[k].prerequisites.kind
        /\ t1[k].prerequisites.set = t2[k].prerequisites.set

\* deserialize was called on a text that serialize can return for the tree
RoundTrip == call.op = "deserialize" /\ call.data \in serialize(technologies)

\* C7 as stated: for every registry without ';', ':', ',' and newline in its
\* ids, names, descriptions and prerequisite ids (empty strings and empty
\* prerequisite sets included), deserialize(serialize(registry)) has the same
\* ids and for each id the same fields.
C7_RoundTrip_Original ==
    (RoundTrip /\ CleanTree(technologies))
    => call.ret.tag = "Ok" /\ SameTree(call.ret.technologies, technologies)

\* C7 as amended: the same, for registries in which moreover no prerequisite
\* id is the empty string.
C7_RoundTrip ==
    (/\ RoundTrip
     /\ CleanTree(technologies)
     /\ \A k \in DOMAIN technologies : <<>> \notin technologies[k].prerequisites.set)
    => call.ret.tag = "Ok" /\ SameTree(call.ret.technologies, technologies)

\* A tree of two technologies, one with the empty id, one with two
\* prerequisite ids and one with none, came back from its serialization.
C7_Witness ==
    /\ RoundTrip
    /\ DOMAIN technologies = CodecKeys
    /\ \E k \in CodecKeys : technologies[k].prerequisites.set = {<<"x">>, <<"y">>}
    /\ \E k \in CodecKeys : technologies[k].prerequisites.set = {}
    /\ call.ret.tag = "Ok"
    /\ call.ret.technologies = technologies

\* A line with five fields whose prerequisite field holds a ':' after the
\* token And or Or
WellFormed(line) ==
    /\ Len(Split(line, ";")) = 5
    /\ \E i \in 1..Len(Split(line, ";")[4]) :
        /\ Split(line, ";")[4][i] = ":"
        /\ \A j \in 1..(i - 1) : Split(line, ";")[4][j] # ":"
        /\ SubSeq(Split(line, ";")[4], 1, i - 1) \in {AndToken, OrToken}

\* C8: deserialize returns a registry for every input text and never fails;
\* a line without exactly five fields and a five-field line whose
\* prerequisite field has no kind token And or Or (a field without ':'
\* included) produce no technology, and every well-formed line is loaded.
C8_DeserializeTotal ==
    call.op = "deserialize" =>
        /\ call.ret.tag = "Ok"
        /\ DOMAIN call.ret.technologies =
            {Split(Lines(call.data)[i], ";")[1] :
                i \in {j \in 1..Len(Lines(call.data)) : WellFormed(Lines(call.data)[j])}}

----------------------------------------------------------------------------
(* Claims about get_unlockable_technologies *)

\* C11: get_unlockable_technologies returns, each exactly once, precisely
\* the registered ids for which is_unlockable is true; ids that are already
\* in unlocked are not filtered out, and ids that are in unlocked but not
\* registered never appear.
C11_UnlockableListing ==
    call.op = "get_unlockable_technologies" =>
        /\ Elems(call.ret) =
            {id \in DOMAIN technologies :
                is_unlockable(technologies, id, unlocked, call.science_points)}
        /\ \A i, j \in 1..Len(call.ret) : call.ret[i] = call.ret[j] => i = j
        /\ \A id \in unlocked \cap DOMAIN technologies :
                is_unlockable(technologies, id, unlocked, call.science_points)
                    => id \in Elems(call.ret)
        /\ \A id \in unlocked \ DOMAIN technologies : id \notin Elems(call.ret)

\* The listing holds an id that is already unlocked, while another unlocked
\* id is not registered and is left out.
C11_Witness ==
    /\ call.op = "get_unlockable_technologies"
    /\ \E id \in unlocked : id \in Elems(call.ret)
    /\ \E id \in unlocked : id \notin DOMAIN technologies /\ id \notin Elems(call.ret)

\* C12: the order of the sequence returned by get_unlockable_technologies is
\* deterministic: on equal registry contents, equal unlocked sets and equal
\* points every call returns the same sequence in the same order.
C12_DeterministicOrder ==
    call.op = "get_unlockable_technologies" =>
        \A other \in get_unlockable_technologies(technologies, unlocked,
                                                 call.science_points) :
            other = call.ret

----------------------------------------------------------------------------
(* Claims about the search of get_technology_path *)

\* The entries a step takes from the frontier
Extracted == {n \in BagToSet(heap) : CopiesIn(n, heap') < CopiesIn(n, heap)}

\* The entries a step adds to the frontier
Pushed == {n \in BagToSet(heap') : CopiesIn(n, heap') > CopiesIn(n, heap)}

\* The accumulated cost an entry stands for: let current_cost = -current.cost
Accumulated(n) == NegI32(n.cost)

\* C13: at every extraction step of get_technology_path the entry taken
\* from the frontier has the lowest accumulated cost of all entries in the
\* frontier at that moment: no entry with a strictly smaller accumulated cost
\* is left behind.
C13_ExtractsLowestCost ==
    [][\A n \in Extracted : \A m \in BagToSet(heap) :
            Accumulated(n) <= Accumulated(m)]_vars

\* An id of the caller's unlocked set, or one that is unlockable on the
\* caller's arguments
OnSnapshot(id) ==
    \/ id \in unlocked
    \/ is_unlockable(technologies, id, unlocked, call.science_points)

\* C14: during get_technology_path every id that is pushed to the frontier,
\* marked visited or recorded in the returned path is a member of the
\* caller's unlocked set or is unlockable on the original arguments
\* (eligibility is never re-evaluated against ids found by the search), and
\* the caller's unlocked set and the registry are the same after the call as
\* before it.
C14_FixedSnapshot ==
    /\ [](call.op = "get_technology_path" =>
            /\ \A n \in BagToSet(heap) : OnSnapshot(n.tech_id)
            /\ \A id \in visited : OnSnapshot(id)
            /\ \A id \in Elems(path) : OnSnapshot(id)
            /\ ReturnedSome => \A id \in Elems(call.ret.path) : OnSnapshot(id))
    /\ [][unlocked' = unlocked /\ technologies' = technologies]_vars

\* The search is over; it visited an id that is not unlocked, and left out a
\* registered id whose one And prerequisite is that visited id.
C14_Witness ==
    /\ Returned
    /\ \E p \in visited \ unlocked :
        \E id \in DOMAIN technologies \ (unlocked \cup visited) :
            /\ technologies[id].prerequisites = And({p})
            /\ ULe(technologies[id].cost, call.science_points)

\* The run of the visit order that starts at the last unlocked id visited
\* before the target and ends at the id visited just before the target
RunBeforeTarget ==
    LET k == Len(visit_order)
        s == CHOOSE i \in 1..(k - 1) :
                /\ visit_order[i] \in unlocked
                /\ \A j \in (i + 1)..(k - 1) : visit_order[j] \notin unlocked
    IN  SubSeq(visit_order, s, k - 1)

\* A path was returned for a target that is not unlocked
ReturnedPath == ReturnedSome /\ call.target \notin unlocked

NoRepeat(seq) == \A i, j \in 1..Len(seq) : seq[i] = seq[j] => i = j

\* C15: get_technology_path terminates: each id is marked visited at most
\* once, a visited id is never pushed again, the loop eventually extracts
\* the target or empties the frontier, and the predecessor chain followed
\* from the target never revisits an id, so the call returns.
C15_Terminates ==
    /\ [](NoRepeat(visit_order) /\ Elems(visit_order) = visited)
    /\ [][pc = "loop" => \A n \in Pushed : n.tech_id \notin visited']_vars
    /\ [](pc = "reconstruct" => NoRepeat(<<call.target>> \o path))
    /\ (pc = "loop") ~> (pc \in {"reconstruct", "done"})
    /\ (pc = "reconstruct") ~> (pc = "done")

\* The call returned None with the frontier empty after three ids had been
\* visited.
C15_Witness ==
    /\ ReturnedNone
    /\ Len(visit_order) = 3
    /\ heap = EmptyBag

\* C16: for every entry pushed for a technology n, the accumulated cost it
\* stores equals the accumulated cost of the entry just extracted plus n's
\* declared cost, for every declared cost of the u32 range and every chain of
\* expansions: the conversion to i32, the addition and the negation never
\* wrap, change sign or overflow.
C16_AccumulatedCostExact ==
    /\ [][(pc = "loop" /\ pc' = "loop") =>
            \A n \in Pushed : \A current \in Extracted :
                /\ technologies[n.tech_id].cost[1] < Half \div 2
                /\ ~AddI32Overflows(Accumulated(current),
                                    AsI32(technologies[n.tech_id].cost))
                /\ Accumulated(n) >= 0
                /\ Accumulated(n) = Accumulated(current)
                                        + AsI32(technologies[n.tech_id].cost)]_vars
    /\ [](Returned => call.ret.tag # "Panic")

----------------------------------------------------------------------------
(* Claims about sequences of calls *)

\* The prerequisite condition of a registered technology, on the set unl
Satisfied(techs, id, unl) ==
    /\ id \in DOMAIN techs
    /\ techs[id].prerequisites.kind = "And" =>
            \A p \in techs[id].prerequisites.set : p \in unl
    /\ techs[id].prerequisites.kind = "Or" =>
            \E p \in techs[id].prerequisites.set : p \in unl

\* C18: with the registry fixed and unlocked starting empty, after any
\* sequence of unlock_technology calls every id in unlocked is a registered
\* technology whose prerequisite condition is satisfied by unlocked itself
\* (all prerequisites unlocked if conjunctive, at least one if disjunctive),
\* and unlocked never shrinks.
C18_UnlockedSatisfied ==
    /\ [](\A id \in unlocked : Satisfied(technologies, id, unlocked))
    /\ [][unlocked \subseteq unlocked' /\ technologies' = technologies]_vars

\* Both ids are unlocked, one of them a technology with a prerequisite, the
\* other one unlocked by the last call.
C18_Witness ==
    /\ call.op = "unlock_technology"
    /\ call.ret = TRUE
    /\ unlocked = Ids
    /\ \E id \in Ids \ {call.tech_id} : technologies[id].prerequisites.set # {}

\* Every prerequisite id of every registered technology is registered
NoDangling(techs) ==
    \A k \in DOMAIN techs : \A p \in techs[k].prerequisites.set : p \in DOMAIN techs

\* C19: remove_technology never creates a dangling prerequisite: if every
\* prerequisite id of every registered technology is registered before the
\* call, the same holds after it, whether the call succeeds or fails.
C19_RemoveKeepsNoDangling ==
    [][(call'.op = "remove_technology" /\ NoDangling(technologies))
            => NoDangling(technologies')]_vars

\* A removal succeeded and left a registry without dangling prerequisite in
\* which a technology has a prerequisite.
C19_Witness ==
    /\ call.op = "remove_technology"
    /\ call.ret.tag = "Ok"
    /\ call.technology_id \notin DOMAIN technologies
    /\ NoDangling(technologies)
    /\ \E k \in DOMAIN technologies : technologies[k].prerequisites.set # {}

\* C20: eligibility is monotone for a fixed registry: if is_unlockable(id,
\* U, p) is true then is_unlockable(id, U2, p2) is true for every U2 that
\* contains U and every p2 >= p; hence a technology that is unlockable stays
\* unlockable after a successful unlock_technology call made with the same
\* or a larger points value.
C20_EligibilityMonotone ==
    /\ [](\A id \in Ids, U \in SUBSET Ids, p \in Points :
            is_unlockable(technologies, id, U, p) =>
                \A U2 \in SUBSET Ids, p2 \in Points :
                    (U \subseteq U2 /\ ULe(p, p2)) =>
                        is_unlockable(technologies, id, U2, p2))
    /\ [][(call'.op = "unlock_technology" /\ call'.ret = TRUE) =>
            \A id \in Ids, p \in Points :
                (/\ is_unlockable(technologies, id, unlocked, p)
                 /\ ULe(p, call'.science_points))
                => is_unlockable(technologies', id, unlocked', call'.science_points)]_vars

\* An unlock succeeded with both ids unlocked while the other technology,
\* an Or technology over both ids, is unlockable.
C20_Witness ==
    /\ call.op = "unlock_technology"
    /\ call.ret = TRUE
    /\ unlocked = Ids
    /\ \E id \in Ids \ {call.tech_id} :
        /\ id \in DOMAIN technologies
        /\ technologies[id].prerequisites = Or(Ids)
        /\ is_unlockable(technologies, id, unlocked, call.science_points)

====
